---- MODULE Spec2Model ----
(***************************************************************************)
(* ClashChat real-time core: the socket.io handlers of socketHandler.ts    *)
(* (presence registry, connect / disconnect, send_message, typing,         *)
(* message_read), the HTTP getMessages controller and the friendship       *)
(* controllers that write the Friendship store the handlers read.          *)
(*                                                                         *)
(* Every `await` of a handler is a suspension point: a handler is split    *)
(* into one action per resumption, and the storage operation it awaited    *)
(* takes effect in the action that resumes it.                             *)
(***************************************************************************)
EXTENDS Integers, Sequences, FiniteSets, TLC

Users == {"a", "b"}

MaxConns == 3
MaxMsgs == 1
MaxHandlers == 2
MaxTime == 2
\* the chat specification needs a socket for each of two identities
ChatConns == MaxConns - 1

NoConn == 0
NoMsg == 0
NoUser == "-"
NoContent == "-"
\* the content of a message
Contents == {"hi"}

VARIABLES
    onlineUsers,   \* the presence registry: userId -> socket id (NoConn: no entry)
    sockets,       \* every socket accepted so far; the socket id is its index
    userStatus,    \* User.status of every account ("absent": no User document)
    friendship,    \* Friendship store: <<requester, recipient>> -> status ("none": no record)
    messages,      \* Message store; the message id is its index
    handlers,      \* asynchronous handlers suspended on an await
    emitted,       \* the events pushed by the last step, in order
    refreshToken,  \* User.refreshToken of every account (NoRefresh: undefined)
    now            \* the clock, in seconds: the iat of a token signed now

vars == <<onlineUsers, sockets, userStatus, friendship, messages, handlers, emitted, refreshToken, now>>

----------------------------------------------------------------------------
(* Credentials *)

NoToken == [sig |-> "absent", userId |-> NoUser]
Tokens == [sig : {"good", "bad", "expired"}, userId : Users]

\* a handshake carries the credential as auth data, as an authorization header, or both
Handshakes ==
    {[auth |-> t, header |-> NoToken] : t \in Tokens \cup {NoToken}}
      \cup {[auth |-> NoToken, header |-> t] : t \in Tokens}
      \cup {[auth |-> [sig |-> "bad", userId |-> u], header |-> [sig |-> "good", userId |-> u]] : u \in Users}

\* socket.handshake.auth.token || socket.handshake.headers.authorization?.split(' ')[1]
HandshakeToken(hs) == IF hs.auth # NoToken THEN hs.auth ELSE hs.header

verifyAccessToken_IgnoreExpiry(t) == t.sig \in {"good", "expired"}

\* jwt.verify: throws unless the signature is good and the token has not expired
verifyAccessToken(t) == t.sig = "good"

\* a refresh token: jwt.sign of {userId, email} with the refresh secret is a function of the
\* payload and of the second it is signed in (iat)
NoRefresh == [sig |-> "absent", userId |-> NoUser, iat |-> 0]
RefreshTokens == [sig : {"good", "bad"}, userId : Users, iat : 0..MaxTime]

generateRefreshToken(userId) == [sig |-> "good", userId |-> userId, iat |-> now]

verifyRefreshToken(t) == t.sig = "good"

----------------------------------------------------------------------------
(* Stores *)

Pairs == Users \X Users

AcceptedBetween_AnyStatus(a, b) ==
    /\ <<a, b>> \in Pairs
    /\ \/ friendship[<<a, b>>] \in {"accepted", "pending"}
       \/ friendship[<<b, a>>] \in {"accepted", "pending"}

\* Friendship.findOne({$or: [{requester: a, recipient: b}, {requester: b, recipient: a}], status: 'accepted'})
\* (no record matches an id that is missing from the event)
AcceptedBetween(a, b) ==
    /\ <<a, b>> \in Pairs
    /\ \/ friendship[<<a, b>>] = "accepted"
       \/ friendship[<<b, a>>] = "accepted"

FriendIdsOf_Pending(u) ==
    {f \in Users : \/ friendship[<<u, f>>] \in {"accepted", "pending"}
                   \/ friendship[<<f, u>>] \in {"accepted", "pending"}}

\* Friendship.find({$or: [{requester: u}, {recipient: u}], status: 'accepted'}) mapped to the other party
FriendIdsOf(u) ==
    {f \in Users : \/ friendship[<<u, f>>] = "accepted"
                   \/ friendship[<<f, u>>] = "accepted"}

\* User.findById(u) finds a document
UserExists(u) == userStatus[u] # "absent"

MsgIds == 1..Len(messages)

\* onlineUsers.get(id): undefined for an id the Map has no entry for, a missing id included
Registered(id) == IF id \in Users THEN onlineUsers[id] ELSE NoConn

Rank(s) == CASE s = "sent" -> 0 [] s = "delivered" -> 1 [] s = "read" -> 2

----------------------------------------------------------------------------
(* Emissions *)

Ev(to, ev, from, userId, msg, status) ==
    [to |-> to, ev |-> ev, from |-> from, userId |-> userId, msg |-> msg, status |-> status]

\* friendIds.forEach(friendId => { const s = onlineUsers.get(friendId); if (s) io.to(s).emit(ev, {userId}) })
RECURSIVE NotifyFriends(_, _, _, _, _)
NotifyFriends(reg, todo, ev, from, userId) ==
    IF todo = {} THEN <<>>
    ELSE LET f == CHOOSE x \in todo : TRUE
             rest == NotifyFriends(reg, todo \ {f}, ev, from, userId)
         IN IF reg[f] # NoConn
            THEN <<Ev(reg[f], ev, from, userId, NoMsg, "-")>> \o rest
            ELSE rest

----------------------------------------------------------------------------
(* Handlers in flight *)

Slots == 1..MaxHandlers

Idle == [kind |-> "idle", pc |-> "-", sock |-> NoConn, user |-> NoUser, peer |-> NoUser,
         msg |-> NoMsg, rsock |-> NoConn, atArrival |-> FALSE, atCreate |-> FALSE,
         content |-> NoContent, presented |-> NoRefresh, issued |-> NoRefresh,
         limit |-> 0, page |-> 0]

FreeSlots == {h \in Slots : handlers[h].kind = "idle"}

\* the handlers that will still insert a Message
WillCreate == {h \in Slots : handlers[h].kind \in {"send_message", "sendMessage"}
                                /\ handlers[h].pc \in {"findFriendship", "create"}}

\* the Message store, with the Messages the handlers in flight will still insert, holds fewer than n
MsgRoom(n) == Len(messages) + Cardinality(WillCreate) < n

Init ==
    /\ onlineUsers = [u \in Users |-> NoConn]
    /\ sockets = <<>>
    /\ userStatus = [u \in Users |-> "offline"]
    /\ friendship = [p \in Pairs |-> "none"]
    /\ messages = <<>>
    /\ handlers = [h \in Slots |-> Idle]
    /\ emitted = <<>>
    /\ refreshToken = [u \in Users |-> NoRefresh]
    /\ now = 0

----------------------------------------------------------------------------
(* Connection gateway *)

\* io.use middleware, then the synchronous head of the 'connection' handler
Connection(hs) ==
    LET token == HandshakeToken(hs)
        id == Len(sockets) + 1
    IN  /\ Len(sockets) < MaxConns
        /\ IF token = NoToken
           THEN /\ emitted' = <<Ev(NoConn, "connect_error", NoConn, NoUser, NoMsg, "No token provided")>>
                /\ UNCHANGED <<onlineUsers, sockets, userStatus, friendship, messages, handlers>>
           ELSE IF ~verifyAccessToken(token)
           THEN /\ emitted' = <<Ev(NoConn, "connect_error", NoConn, NoUser, NoMsg, "Invalid token")>>
                /\ UNCHANGED <<onlineUsers, sockets, userStatus, friendship, messages, handlers>>
           ELSE /\ sockets' = Append(sockets,
                       [userId |-> token.userId, token |-> token, pc |-> "setOnline", open |-> TRUE,
                        friendIds |-> {},
                        sole |-> \A s \in 1..Len(sockets) :
                                    sockets[s].userId = token.userId => ~sockets[s].open])
                /\ onlineUsers' = [onlineUsers EXCEPT ![token.userId] = id]
                /\ emitted' = <<>>
                /\ UNCHANGED <<userStatus, friendship, messages, handlers>>
        /\ UNCHANGED <<refreshToken, now>>

\* resumes after await User.findByIdAndUpdate(userId, {status: 'online'})
ConnSetOnline(s) ==
    /\ s \in 1..Len(sockets)
    /\ sockets[s].pc = "setOnline"
    /\ userStatus' = IF UserExists(sockets[s].userId)
                     THEN [userStatus EXCEPT ![sockets[s].userId] = "online"]
                     ELSE userStatus
    /\ sockets' = [sockets EXCEPT ![s].pc = "findFriends"]
    /\ emitted' = <<>>
    /\ UNCHANGED <<onlineUsers, friendship, messages, handlers, refreshToken, now>>

ConnFindFriends_Replay(s) ==
    /\ s \in 1..Len(sockets)
    /\ sockets[s].pc = "findFriends"
    /\ LET u == sockets[s].userId
           ids == FriendIdsOf(u)
           undelivered == {m \in MsgIds : messages[m].receiver = u /\ messages[m].status = "sent"}
       IN /\ sockets' = [sockets EXCEPT ![s].pc = "ready", ![s].friendIds = ids]
          /\ IF undelivered = {}
             THEN /\ emitted' = NotifyFriends(onlineUsers, ids, "user_online", s, u)
                  /\ UNCHANGED messages
             ELSE LET m == CHOOSE x \in undelivered : \A y \in undelivered : x <= y
                  IN /\ emitted' = NotifyFriends(onlineUsers, ids, "user_online", s, u)
                                      \o <<Ev(s, "receive_message", s, NoUser, m, "delivered")>>
                     /\ messages' = [messages EXCEPT ![m].status = "delivered"]
    /\ UNCHANGED <<onlineUsers, userStatus, friendship, handlers, refreshToken, now>>

\* resumes after await Friendship.find(...): computes friendIds, pushes user_online,
\* attaches the event and disconnect listeners
ConnFindFriends(s) ==
    /\ s \in 1..Len(sockets)
    /\ sockets[s].pc = "findFriends"
    /\ LET u == sockets[s].userId
           ids == FriendIdsOf(u)
       IN /\ sockets' = [sockets EXCEPT ![s].pc = "ready", ![s].friendIds = ids]
          /\ emitted' = NotifyFriends(onlineUsers, ids, "user_online", s, u)
    /\ UNCHANGED <<onlineUsers, userStatus, friendship, messages, handlers, refreshToken, now>>

\* the transport closes.  With the 'disconnect' listener attached its synchronous head runs
\* (onlineUsers.delete(userId)); before that the event finds no listener.
Close(s) ==
    /\ s \in 1..Len(sockets)
    /\ sockets[s].open
    /\ IF sockets[s].pc = "ready"
       THEN /\ onlineUsers' = [onlineUsers EXCEPT ![sockets[s].userId] = NoConn]
            /\ sockets' = [sockets EXCEPT ![s].open = FALSE, ![s].pc = "setOffline"]
       ELSE /\ sockets' = [sockets EXCEPT ![s].open = FALSE]
            /\ UNCHANGED onlineUsers
    /\ emitted' = <<>>
    /\ UNCHANGED <<userStatus, friendship, messages, handlers, refreshToken, now>>

\* resumes after await User.findByIdAndUpdate(userId, {status: 'offline', lastSeen})
DiscSetOffline(s) ==
    /\ s \in 1..Len(sockets)
    /\ sockets[s].pc = "setOffline"
    /\ LET u == sockets[s].userId
       IN /\ userStatus' = IF UserExists(u)
                           THEN [userStatus EXCEPT ![u] = "offline"]
                           ELSE userStatus
          /\ sockets' = [sockets EXCEPT ![s].pc = "closed"]
          /\ emitted' = NotifyFriends(onlineUsers, sockets[s].friendIds, "user_offline", s, u)
    /\ UNCHANGED <<onlineUsers, friendship, messages, handlers, refreshToken, now>>

----------------------------------------------------------------------------
(* Event router *)

\* the payloads of send_message: complete, and with receiverId or content missing
SendData == [receiverId : Users, content : Contents]
SendDataPartial == [receiverId : Users \cup {NoUser}, content : Contents \cup {NoContent}]

Listening_Closed(s) == s \in 1..Len(sockets) /\ sockets[s].pc \in {"ready", "setOffline", "closed"}

\* the socket's event listeners are attached and the transport still delivers its events
Listening(s) == s \in 1..Len(sockets) /\ sockets[s].open /\ sockets[s].pc = "ready"

Start(h, rec) == handlers' = [handlers EXCEPT ![h] = rec]
Finish(h) == handlers' = [handlers EXCEPT ![h] = Idle]

Typing_FriendsOnly(s, receiverId, ev) ==
    /\ Listening(s)
    /\ LET receiverSocketId == Registered(receiverId)
       IN emitted' = IF receiverSocketId # NoConn /\ AcceptedBetween(sockets[s].userId, receiverId)
                     THEN <<Ev(receiverSocketId, ev, s, sockets[s].userId, NoMsg, "-")>>
                     ELSE <<>>
    /\ UNCHANGED <<onlineUsers, sockets, userStatus, friendship, messages, handlers, refreshToken, now>>

\* socket.on('typing' | 'stop_typing'): synchronous, no await
Typing(s, receiverId, ev) ==
    /\ Listening(s)
    /\ LET receiverSocketId == Registered(receiverId)
       IN emitted' = IF receiverSocketId # NoConn
                     THEN <<Ev(receiverSocketId, ev, s, sockets[s].userId, NoMsg, "-")>>
                     ELSE <<>>
    /\ UNCHANGED <<onlineUsers, sockets, userStatus, friendship, messages, handlers, refreshToken, now>>

\* a send_message event arrives: the handler runs up to await Friendship.findOne
SendMessage(s, data) ==
    /\ Listening(s)
    /\ FreeSlots # {}
    /\ LET h == CHOOSE x \in FreeSlots : \A y \in FreeSlots : x <= y
       IN Start(h, [kind |-> "send_message", pc |-> "findFriendship", sock |-> s,
                    user |-> sockets[s].userId, peer |-> data.receiverId, msg |-> NoMsg,
                    rsock |-> NoConn, atArrival |-> Registered(data.receiverId) # NoConn,
                    atCreate |-> FALSE, content |-> data.content, presented |-> NoRefresh,
                    issued |-> NoRefresh, limit |-> 0, page |-> 0])
    /\ emitted' = <<>>
    /\ UNCHANGED <<onlineUsers, sockets, userStatus, friendship, messages, refreshToken, now>>

\* resumes after await Friendship.findOne: the friendship check
SendFindFriendship(h) ==
    /\ handlers[h].kind = "send_message"
    /\ handlers[h].pc = "findFriendship"
    /\ IF AcceptedBetween(handlers[h].user, handlers[h].peer)
       THEN /\ handlers' = [handlers EXCEPT ![h].pc = "create"]
            /\ emitted' = <<>>
       ELSE /\ Finish(h)
            /\ emitted' = <<Ev(handlers[h].sock, "error", handlers[h].sock, NoUser, NoMsg,
                               "Not friends with this user")>>
    /\ UNCHANGED <<onlineUsers, sockets, userStatus, friendship, messages, refreshToken, now>>

\* resumes after await Message.create({..., status: 'sent'}); the schema requires content, and
\* the rejection of a Message without it is caught like a storage failure
SendCreate(h) ==
    /\ handlers[h].kind = "send_message"
    /\ handlers[h].pc = "create"
    /\ IF handlers[h].content = NoContent
       THEN /\ Finish(h)
            /\ emitted' = <<Ev(handlers[h].sock, "error", handlers[h].sock, NoUser, NoMsg,
                               "Failed to send message")>>
            /\ UNCHANGED messages
       ELSE /\ messages' = Append(messages, [sender |-> handlers[h].user, receiver |-> handlers[h].peer,
                                             status |-> "sent", present |-> "-", via |-> "socket"])
            /\ handlers' = [handlers EXCEPT ![h].pc = "populate", ![h].msg = Len(messages) + 1,
                                            ![h].atCreate = Registered(handlers[h].peer) # NoConn]
            /\ emitted' = <<>>
    /\ UNCHANGED <<onlineUsers, sockets, userStatus, friendship, refreshToken, now>>

SendPopulate_AtArrival(h) ==
    /\ handlers[h].kind = "send_message"
    /\ handlers[h].pc = "populate"
    /\ LET receiverSocketId == onlineUsers[handlers[h].peer]
           m == handlers[h].msg
       IN IF handlers[h].atArrival
          THEN /\ handlers' = [handlers EXCEPT ![h].pc = "save", ![h].rsock = receiverSocketId]
               /\ messages' = [messages EXCEPT ![m].present =
                                   IF receiverSocketId # NoConn THEN "yes" ELSE "no"]
               /\ emitted' = <<>>
          ELSE /\ Finish(h)
               /\ messages' = [messages EXCEPT ![m].present =
                                   IF receiverSocketId # NoConn THEN "yes" ELSE "no"]
               /\ emitted' = <<Ev(handlers[h].sock, "message_sent", handlers[h].sock,
                                  NoUser, m, "sent")>>
    /\ UNCHANGED <<onlineUsers, sockets, userStatus, friendship, refreshToken, now>>

SendPopulate_NoAck(h) ==
    /\ handlers[h].kind = "send_message"
    /\ handlers[h].pc = "populate"
    /\ LET receiverSocketId == onlineUsers[handlers[h].peer]
           m == handlers[h].msg
       IN IF receiverSocketId # NoConn
          THEN /\ handlers' = [handlers EXCEPT ![h].pc = "save", ![h].rsock = receiverSocketId]
               /\ messages' = [messages EXCEPT ![m].present = "yes"]
               /\ emitted' = <<>>
          ELSE /\ Finish(h)
               /\ messages' = [messages EXCEPT ![m].present = "no"]
               /\ emitted' = <<>>
    /\ UNCHANGED <<onlineUsers, sockets, userStatus, friendship, refreshToken, now>>

\* resumes after await message.populate: looks the receiver up in the registry; without an
\* entry acknowledges at once, with one sets status = 'delivered' and awaits message.save()
SendPopulate(h) ==
    /\ handlers[h].kind = "send_message"
    /\ handlers[h].pc = "populate"
    /\ LET receiverSocketId == onlineUsers[handlers[h].peer]
           m == handlers[h].msg
       IN IF receiverSocketId # NoConn
          THEN /\ handlers' = [handlers EXCEPT ![h].pc = "save", ![h].rsock = receiverSocketId]
               /\ messages' = [messages EXCEPT ![m].present = "yes"]
               /\ emitted' = <<>>
          ELSE /\ Finish(h)
               /\ messages' = [messages EXCEPT ![m].present = "no"]
               /\ emitted' = <<Ev(handlers[h].sock, "message_sent", handlers[h].sock,
                                  NoUser, m, "sent")>>
    /\ UNCHANGED <<onlineUsers, sockets, userStatus, friendship, refreshToken, now>>

SendSave_StalePayload(h) ==
    /\ handlers[h].kind = "send_message"
    /\ handlers[h].pc = "save"
    /\ LET m == handlers[h].msg
       IN /\ messages' = [messages EXCEPT ![m].status = "delivered"]
          /\ emitted' = <<Ev(handlers[h].rsock, "receive_message", handlers[h].sock,
                             NoUser, m, "sent"),
                          Ev(handlers[h].sock, "message_sent", handlers[h].sock,
                             NoUser, m, "delivered")>>
    /\ Finish(h)
    /\ UNCHANGED <<onlineUsers, sockets, userStatus, friendship, refreshToken, now>>

\* resumes after await message.save() of status 'delivered': pushes receive_message to the
\* socket id read before the save, then message_sent to the sender's own socket
SendSave(h) ==
    /\ handlers[h].kind = "send_message"
    /\ handlers[h].pc = "save"
    /\ LET m == handlers[h].msg
       IN /\ messages' = [messages EXCEPT ![m].status = "delivered"]
          /\ emitted' = <<Ev(handlers[h].rsock, "receive_message", handlers[h].sock,
                             NoUser, m, "delivered"),
                          Ev(handlers[h].sock, "message_sent", handlers[h].sock,
                             NoUser, m, "delivered")>>
    /\ Finish(h)
    /\ UNCHANGED <<onlineUsers, sockets, userStatus, friendship, refreshToken, now>>

\* a message_read event arrives: the handler runs up to await Message.findById
MessageRead(s, messageId) ==
    /\ Listening(s)
    /\ FreeSlots # {}
    /\ LET h == CHOOSE x \in FreeSlots : \A y \in FreeSlots : x <= y
       IN Start(h, [Idle EXCEPT !.kind = "message_read", !.pc = "findById", !.sock = s,
                                !.user = sockets[s].userId, !.msg = messageId])
    /\ emitted' = <<>>
    /\ UNCHANGED <<onlineUsers, sockets, userStatus, friendship, messages, refreshToken, now>>

ReadFindById_AnyParty(h) ==
    /\ handlers[h].kind = "message_read"
    /\ handlers[h].pc = "findById"
    /\ IF /\ handlers[h].msg \in MsgIds
          /\ handlers[h].user \in {messages[handlers[h].msg].receiver, messages[handlers[h].msg].sender}
       THEN handlers' = [handlers EXCEPT ![h].pc = "save"]
       ELSE Finish(h)
    /\ emitted' = <<>>
    /\ UNCHANGED <<onlineUsers, sockets, userStatus, friendship, messages, refreshToken, now>>

\* resumes after await Message.findById: message && message.receiver.toString() === userId
ReadFindById(h) ==
    /\ handlers[h].kind = "message_read"
    /\ handlers[h].pc = "findById"
    /\ IF /\ handlers[h].msg \in MsgIds
          /\ messages[handlers[h].msg].receiver = handlers[h].user
       THEN handlers' = [handlers EXCEPT ![h].pc = "save"]
       ELSE Finish(h)
    /\ emitted' = <<>>
    /\ UNCHANGED <<onlineUsers, sockets, userStatus, friendship, messages, refreshToken, now>>

ReadSave_NotIdempotent(h) ==
    /\ handlers[h].kind = "message_read"
    /\ handlers[h].pc = "save"
    /\ LET m == handlers[h].msg
           senderSocketId == onlineUsers[messages[m].sender]
       IN /\ messages' = [messages EXCEPT ![m].status =
                              IF messages[m].status = "read" THEN "delivered" ELSE "read"]
          /\ emitted' = IF senderSocketId # NoConn
                        THEN <<Ev(senderSocketId, "message_read", handlers[h].sock, NoUser, m, "-")>>
                        ELSE <<>>
    /\ Finish(h)
    /\ UNCHANGED <<onlineUsers, sockets, userStatus, friendship, refreshToken, now>>

\* resumes after await message.save() of status 'read': notifies the sender if registered
ReadSave(h) ==
    /\ handlers[h].kind = "message_read"
    /\ handlers[h].pc = "save"
    /\ LET m == handlers[h].msg
           senderSocketId == onlineUsers[messages[m].sender]
       IN /\ messages' = [messages EXCEPT ![m].status = "read"]
          /\ emitted' = IF senderSocketId # NoConn
                        THEN <<Ev(senderSocketId, "message_read", handlers[h].sock, NoUser, m, "-")>>
                        ELSE <<>>
    /\ Finish(h)
    /\ UNCHANGED <<onlineUsers, sockets, userStatus, friendship, refreshToken, now>>

\* an awaited storage operation of a socket handler rejects: the catch block
StorageFail(h) ==
    /\ handlers[h].kind \in {"send_message", "message_read"}
    /\ emitted' = IF handlers[h].kind = "send_message"
                  THEN <<Ev(handlers[h].sock, "error", handlers[h].sock, NoUser, NoMsg,
                            "Failed to send message")>>
                  ELSE <<>>
    /\ Finish(h)
    /\ UNCHANGED <<onlineUsers, sockets, userStatus, friendship, messages, refreshToken, now>>

----------------------------------------------------------------------------
(* HTTP: messageController.getMessages *)

Http(status) == Ev(NoConn, "http", NoConn, NoUser, NoMsg, status)

\* sendSuccess(res, ..., {messages, unreadCount}) with a page of n Messages
HttpPage(n) == Ev(NoConn, "http", NoConn, NoUser, n, "200")

\* const { limit = 50, skip = 0 } = req.query
DefaultLimit == 50

\* the Messages between userId and friendId, in either direction
Between(msgs, userId, friendId) ==
    {m \in 1..Len(msgs) : \/ msgs[m].sender = userId /\ msgs[m].receiver = friendId
                          \/ msgs[m].sender = friendId /\ msgs[m].receiver = userId}

\* the size of the page Message.find(...).sort(...).limit(limit).skip(0) returns
PageSize(msgs, userId, friendId, limit) ==
    IF Cardinality(Between(msgs, userId, friendId)) < limit
    THEN Cardinality(Between(msgs, userId, friendId))
    ELSE limit

\* GET /messages/:friendId?limit=limit arrives: the controller runs up to await Friendship.findOne
GetMessagesPage(userId, friendId, limit) ==
    /\ FreeSlots # {}
    /\ LET h == CHOOSE x \in FreeSlots : \A y \in FreeSlots : x <= y
       IN Start(h, [Idle EXCEPT !.kind = "getMessages", !.pc = "findFriendship",
                                !.user = userId, !.peer = friendId, !.limit = limit])
    /\ emitted' = <<>>
    /\ UNCHANGED <<onlineUsers, sockets, userStatus, friendship, messages, refreshToken, now>>

\* GET /messages/:friendId without a limit
GetMessages(userId, friendId) == GetMessagesPage(userId, friendId, DefaultLimit)

\* resumes after await Friendship.findOne: 403 unless accepted
GetFindFriendship(h) ==
    /\ handlers[h].kind = "getMessages"
    /\ handlers[h].pc = "findFriendship"
    /\ IF AcceptedBetween(handlers[h].user, handlers[h].peer)
       THEN /\ handlers' = [handlers EXCEPT ![h].pc = "find"]
            /\ emitted' = <<>>
       ELSE /\ Finish(h)
            /\ emitted' = <<Http("403")>>
    /\ UNCHANGED <<onlineUsers, sockets, userStatus, friendship, messages, refreshToken, now>>

\* resumes after await Message.find(...).limit(limit).skip(skip).populate(...): the page
GetFind(h) ==
    /\ handlers[h].kind = "getMessages"
    /\ handlers[h].pc = "find"
    /\ handlers' = [handlers EXCEPT ![h].pc = "updateMany",
                                    ![h].page = PageSize(messages, handlers[h].user, handlers[h].peer,
                                                         handlers[h].limit)]
    /\ emitted' = <<>>
    /\ UNCHANGED <<onlineUsers, sockets, userStatus, friendship, messages, refreshToken, now>>

MarkRead_BothDirections(msgs, userId, friendId) ==
    [m \in 1..Len(msgs) |->
        IF m \in Between(msgs, userId, friendId) /\ msgs[m].status # "read"
        THEN [msgs[m] EXCEPT !.status = "read"]
        ELSE msgs[m]]

\* Message.updateMany({sender: friendId, receiver: userId, status: {$ne: 'read'}}, {status: 'read'})
MarkRead(msgs, userId, friendId) ==
    [m \in 1..Len(msgs) |->
        IF msgs[m].sender = friendId /\ msgs[m].receiver = userId /\ msgs[m].status # "read"
        THEN [msgs[m] EXCEPT !.status = "read"]
        ELSE msgs[m]]

\* resumes after await Message.updateMany(...): answers with the page
GetUpdateMany(h) ==
    /\ handlers[h].kind = "getMessages"
    /\ handlers[h].pc = "updateMany"
    /\ messages' = MarkRead(messages, handlers[h].user, handlers[h].peer)
    /\ emitted' = <<HttpPage(handlers[h].page)>>
    /\ Finish(h)
    /\ UNCHANGED <<onlineUsers, sockets, userStatus, friendship, refreshToken, now>>

----------------------------------------------------------------------------
(* HTTP: messageController.sendMessage *)

\* POST /messages by senderId with body data: 400 when receiverId or content is missing, else
\* the controller runs up to await Friendship.findOne
HttpSendMessage(senderId, data) ==
    /\ FreeSlots # {}
    /\ IF data.receiverId = NoUser \/ data.content = NoContent
       THEN /\ emitted' = <<Http("400")>>
            /\ UNCHANGED handlers
       ELSE /\ LET h == CHOOSE x \in FreeSlots : \A y \in FreeSlots : x <= y
               IN Start(h, [Idle EXCEPT !.kind = "sendMessage", !.pc = "findFriendship",
                                        !.user = senderId, !.peer = data.receiverId,
                                        !.content = data.content])
            /\ emitted' = <<>>
    /\ UNCHANGED <<onlineUsers, sockets, userStatus, friendship, messages, refreshToken, now>>

\* resumes after await Friendship.findOne: 403 unless accepted
HttpSendFindFriendship(h) ==
    /\ handlers[h].kind = "sendMessage"
    /\ handlers[h].pc = "findFriendship"
    /\ IF AcceptedBetween(handlers[h].user, handlers[h].peer)
       THEN /\ handlers' = [handlers EXCEPT ![h].pc = "create"]
            /\ emitted' = <<>>
       ELSE /\ Finish(h)
            /\ emitted' = <<Http("403")>>
    /\ UNCHANGED <<onlineUsers, sockets, userStatus, friendship, messages, refreshToken, now>>

\* resumes after await Message.create({..., status: 'sent'})
HttpSendCreate(h) ==
    /\ handlers[h].kind = "sendMessage"
    /\ handlers[h].pc = "create"
    /\ messages' = Append(messages, [sender |-> handlers[h].user, receiver |-> handlers[h].peer,
                                     status |-> "sent", present |-> "-", via |-> "http"])
    /\ handlers' = [handlers EXCEPT ![h].pc = "populate", ![h].msg = Len(messages) + 1]
    /\ emitted' = <<>>
    /\ UNCHANGED <<onlineUsers, sockets, userStatus, friendship, refreshToken, now>>

HttpSendPopulate_Push(h) ==
    /\ handlers[h].kind = "sendMessage"
    /\ handlers[h].pc = "populate"
    /\ LET receiverSocketId == onlineUsers[handlers[h].peer]
           m == handlers[h].msg
       IN IF receiverSocketId # NoConn
          THEN /\ messages' = [messages EXCEPT ![m].status = "delivered"]
               /\ emitted' = <<Ev(receiverSocketId, "receive_message", NoConn, NoUser, m, "delivered"),
                               Http("201")>>
          ELSE /\ emitted' = <<Http("201")>>
               /\ UNCHANGED messages
    /\ Finish(h)
    /\ UNCHANGED <<onlineUsers, sockets, userStatus, friendship, refreshToken, now>>

\* resumes after await message.populate: answers 201 with the Message
HttpSendPopulate(h) ==
    /\ handlers[h].kind = "sendMessage"
    /\ handlers[h].pc = "populate"
    /\ emitted' = <<Http("201")>>
    /\ Finish(h)
    /\ UNCHANGED <<onlineUsers, sockets, userStatus, friendship, messages, refreshToken, now>>

----------------------------------------------------------------------------
(* HTTP: the authenticate middleware *)

\* the credentials authenticate passes on to next(): a Bearer token that verifies and whose
\* userId is the id of a User document
HttpAccepts(t) == t # NoToken /\ verifyAccessToken(t) /\ UserExists(t.userId)

\* a request arrives with the authorization header 'Bearer t' (NoToken: without one): the
\* middleware runs up to await User.findById
Authenticate(t) ==
    /\ FreeSlots # {}
    /\ IF t = NoToken \/ ~verifyAccessToken(t)
       THEN /\ emitted' = <<Http("401")>>
            /\ UNCHANGED handlers
       ELSE /\ LET h == CHOOSE x \in FreeSlots : \A y \in FreeSlots : x <= y
               IN Start(h, [Idle EXCEPT !.kind = "authenticate", !.pc = "findById", !.user = t.userId])
            /\ emitted' = <<>>
    /\ UNCHANGED <<onlineUsers, sockets, userStatus, friendship, messages, refreshToken, now>>

\* resumes after await User.findById(decoded.userId): 401 'User not found' or next()
AuthFindById(h) ==
    /\ handlers[h].kind = "authenticate"
    /\ handlers[h].pc = "findById"
    /\ emitted' = IF UserExists(handlers[h].user) THEN <<Http("next")>> ELSE <<Http("401")>>
    /\ Finish(h)
    /\ UNCHANGED <<onlineUsers, sockets, userStatus, friendship, messages, refreshToken, now>>

----------------------------------------------------------------------------
(* HTTP: authController *)

\* login up to await user.save(): the credentials were checked, the tokens are signed and
\* user.refreshToken is set on the document
Login(userId) ==
    /\ FreeSlots # {}
    /\ UserExists(userId)
    /\ LET h == CHOOSE x \in FreeSlots : \A y \in FreeSlots : x <= y
       IN Start(h, [Idle EXCEPT !.kind = "login", !.pc = "save", !.user = userId,
                                !.issued = generateRefreshToken(userId)])
    /\ emitted' = <<>>
    /\ UNCHANGED <<onlineUsers, sockets, userStatus, friendship, messages, refreshToken, now>>

\* resumes after await user.save(): the refresh token is stored and returned
LoginSave(h) ==
    /\ handlers[h].kind = "login"
    /\ handlers[h].pc = "save"
    /\ refreshToken' = [refreshToken EXCEPT ![handlers[h].user] = handlers[h].issued]
    /\ emitted' = <<Http("200")>>
    /\ Finish(h)
    /\ UNCHANGED <<onlineUsers, sockets, userStatus, friendship, messages, now>>

\* POST refresh with body {refreshToken: t} (NoRefresh: without one): 400 without a token,
\* 401 when verifyRefreshToken throws, else the controller runs up to await User.findById
RefreshToken(t) ==
    /\ FreeSlots # {}
    /\ IF t = NoRefresh
       THEN /\ emitted' = <<Http("400")>>
            /\ UNCHANGED handlers
       ELSE IF ~verifyRefreshToken(t)
       THEN /\ emitted' = <<Http("401")>>
            /\ UNCHANGED handlers
       ELSE /\ LET h == CHOOSE x \in FreeSlots : \A y \in FreeSlots : x <= y
               IN Start(h, [Idle EXCEPT !.kind = "refreshToken", !.pc = "findById",
                                        !.user = t.userId, !.presented = t])
            /\ emitted' = <<>>
    /\ UNCHANGED <<onlineUsers, sockets, userStatus, friendship, messages, refreshToken, now>>

\* resumes after await User.findById(decoded.userId).select('+refreshToken'): 401 unless the
\* stored token is the presented one; else signs the new tokens, sets user.refreshToken and
\* awaits user.save()
RefreshFindById(h) ==
    /\ handlers[h].kind = "refreshToken"
    /\ handlers[h].pc = "findById"
    /\ LET u == handlers[h].user
       IN IF ~UserExists(u) \/ refreshToken[u] # handlers[h].presented
          THEN /\ emitted' = <<Http("401")>>
               /\ Finish(h)
          ELSE /\ handlers' = [handlers EXCEPT ![h].pc = "save",
                                               ![h].issued = generateRefreshToken(u)]
               /\ emitted' = <<>>
    /\ UNCHANGED <<onlineUsers, sockets, userStatus, friendship, messages, refreshToken, now>>

\* resumes after await user.save(): the new refresh token replaces the stored one
RefreshSave(h) ==
    /\ handlers[h].kind = "refreshToken"
    /\ handlers[h].pc = "save"
    /\ refreshToken' = [refreshToken EXCEPT ![handlers[h].user] = handlers[h].issued]
    /\ emitted' = <<Http("200")>>
    /\ Finish(h)
    /\ UNCHANGED <<onlineUsers, sockets, userStatus, friendship, messages, now>>

\* logout of an authenticated user, up to await User.findById
Logout(userId) ==
    /\ FreeSlots # {}
    /\ LET h == CHOOSE x \in FreeSlots : \A y \in FreeSlots : x <= y
       IN Start(h, [Idle EXCEPT !.kind = "logout", !.pc = "findById", !.user = userId])
    /\ emitted' = <<>>
    /\ UNCHANGED <<onlineUsers, sockets, userStatus, friendship, messages, refreshToken, now>>

\* resumes after await User.findById: sets user.refreshToken = undefined and awaits user.save()
LogoutFindById(h) ==
    /\ handlers[h].kind = "logout"
    /\ handlers[h].pc = "findById"
    /\ IF UserExists(handlers[h].user)
       THEN /\ handlers' = [handlers EXCEPT ![h].pc = "save"]
            /\ emitted' = <<>>
       ELSE /\ Finish(h)
            /\ emitted' = <<Http("200")>>
    /\ UNCHANGED <<onlineUsers, sockets, userStatus, friendship, messages, refreshToken, now>>

\* resumes after await user.save(): the stored refresh token is removed
LogoutSave(h) ==
    /\ handlers[h].kind = "logout"
    /\ handlers[h].pc = "save"
    /\ refreshToken' = [refreshToken EXCEPT ![handlers[h].user] = NoRefresh]
    /\ emitted' = <<Http("200")>>
    /\ Finish(h)
    /\ UNCHANGED <<onlineUsers, sockets, userStatus, friendship, messages, now>>

\* a second passes
Tick ==
    /\ now < MaxTime
    /\ now' = now + 1
    /\ emitted' = <<>>
    /\ UNCHANGED <<onlineUsers, sockets, userStatus, friendship, messages, handlers, refreshToken>>

----------------------------------------------------------------------------
(* HTTP: friendController *)

\* the records Friendship.findOne({$or: [{requester: a, recipient: b}, {requester: b, recipient: a}]}) may return
Existing(a, b) == {p \in {<<a, b>>, <<b, a>>} : friendship[p] # "none"}

\* sendFriendRequest up to await Friendship.create: 400 on self, on accepted, on pending
SendFriendRequest(requesterId, recipientId) ==
    /\ FreeSlots # {}
    /\ requesterId # recipientId
    /\ \/ /\ Existing(requesterId, recipientId) = {}
       \/ \E p \in Existing(requesterId, recipientId) : friendship[p] \notin {"accepted", "pending"}
    /\ LET h == CHOOSE x \in FreeSlots : \A y \in FreeSlots : x <= y
       IN Start(h, [Idle EXCEPT !.kind = "sendFriendRequest", !.pc = "create",
                                !.user = requesterId, !.peer = recipientId])
    /\ emitted' = <<>>
    /\ UNCHANGED <<onlineUsers, sockets, userStatus, friendship, messages, refreshToken, now>>

\* resumes after await Friendship.create: the unique index on (requester, recipient) rejects a duplicate
FriendCreate(h) ==
    /\ handlers[h].kind = "sendFriendRequest"
    /\ LET p == <<handlers[h].user, handlers[h].peer>>
       IN IF friendship[p] = "none"
          THEN /\ friendship' = [friendship EXCEPT ![p] = "pending"]
               /\ emitted' = <<>>
          ELSE /\ UNCHANGED friendship
               /\ emitted' = <<>>
    /\ Finish(h)
    /\ UNCHANGED <<onlineUsers, sockets, userStatus, messages, refreshToken, now>>

\* acceptFriendRequest: findOne({_id, recipient: userId, status: 'pending'}), status = 'accepted', save
AcceptFriendRequest(userId, requesterId) ==
    /\ friendship[<<requesterId, userId>>] = "pending"
    /\ friendship' = [friendship EXCEPT ![<<requesterId, userId>>] = "accepted"]
    /\ emitted' = <<>>
    /\ UNCHANGED <<onlineUsers, sockets, userStatus, messages, handlers, refreshToken, now>>

\* rejectFriendRequest, first variant: the recipient or the requester deletes the pending record
RejectFriendRequestDelete(userId, p) ==
    /\ userId \in {p[1], p[2]}
    /\ friendship[p] = "pending"
    /\ friendship' = [friendship EXCEPT ![p] = "none"]
    /\ emitted' = <<>>
    /\ UNCHANGED <<onlineUsers, sockets, userStatus, messages, handlers, refreshToken, now>>

\* rejectFriendRequest, second variant: the recipient sets the pending record to 'rejected'
RejectFriendRequestKeep(userId, requesterId) ==
    /\ friendship[<<requesterId, userId>>] = "pending"
    /\ friendship' = [friendship EXCEPT ![<<requesterId, userId>>] = "rejected"]
    /\ emitted' = <<>>
    /\ UNCHANGED <<onlineUsers, sockets, userStatus, messages, handlers, refreshToken, now>>

\* removeFriend: findOneAndDelete of an accepted record in either direction
RemoveFriend(userId, friendId) ==
    /\ \E p \in {<<userId, friendId>>, <<friendId, userId>>} :
          /\ friendship[p] = "accepted"
          /\ friendship' = [friendship EXCEPT ![p] = "none"]
    /\ emitted' = <<>>
    /\ UNCHANGED <<onlineUsers, sockets, userStatus, messages, handlers, refreshToken, now>>

----------------------------------------------------------------------------

Next ==
    \/ \E hs \in Handshakes : Connection(hs)
    \/ \E s \in 1..MaxConns : ConnSetOnline(s)
    \/ \E s \in 1..MaxConns : ConnFindFriends(s)
    \/ \E s \in 1..MaxConns : Close(s)
    \/ \E s \in 1..MaxConns : DiscSetOffline(s)
    \/ \E s \in 1..MaxConns, r \in Users, ev \in {"typing", "stop_typing"} : Typing(s, r, ev)
    \/ \E s \in 1..MaxConns, d \in SendData : MsgRoom(MaxMsgs) /\ SendMessage(s, d)
    \/ \E h \in Slots : SendFindFriendship(h)
    \/ \E h \in Slots : SendCreate(h)
    \/ \E h \in Slots : SendPopulate(h)
    \/ \E h \in Slots : SendSave(h)
    \/ \E s \in 1..MaxConns, m \in 1..MaxMsgs : MessageRead(s, m)
    \/ \E h \in Slots : ReadFindById(h)
    \/ \E h \in Slots : ReadSave(h)
    \/ \E h \in Slots : StorageFail(h)
    \/ \E u \in Users, f \in Users : GetMessages(u, f)
    \/ \E h \in Slots : GetFindFriendship(h)
    \/ \E h \in Slots : GetFind(h)
    \/ \E h \in Slots : GetUpdateMany(h)
    \/ \E u \in Users, r \in Users : SendFriendRequest(u, r)
    \/ \E h \in Slots : FriendCreate(h)
    \/ \E u \in Users, r \in Users : AcceptFriendRequest(u, r)
    \/ \E u \in Users, p \in Pairs : RejectFriendRequestDelete(u, p)
    \/ \E u \in Users, r \in Users : RejectFriendRequestKeep(u, r)
    \/ \E u \in Users, f \in Users : RemoveFriend(u, f)
    \/ \E u \in Users, d \in SendDataPartial : MsgRoom(MaxMsgs) /\ HttpSendMessage(u, d)
    \/ \E h \in Slots : HttpSendFindFriendship(h)
    \/ \E h \in Slots : HttpSendCreate(h)
    \/ \E h \in Slots : HttpSendPopulate(h)
    \/ \E t \in Tokens \cup {NoToken} : Authenticate(t)
    \/ \E h \in Slots : AuthFindById(h)
    \/ \E u \in Users : Login(u)
    \/ \E h \in Slots : LoginSave(h)
    \/ \E t \in RefreshTokens \cup {NoRefresh} : RefreshToken(t)
    \/ \E h \in Slots : RefreshFindById(h)
    \/ \E h \in Slots : RefreshSave(h)
    \/ \E u \in Users : Logout(u)
    \/ \E h \in Slots : LogoutFindById(h)
    \/ \E h \in Slots : LogoutSave(h)
    \/ Tick

Spec == Init /\ [][Next]_vars

----------------------------------------------------------------------------
(* Presence: the connection gateway while friendships are accepted and removed *)

\* the stores outlive the server process: the Friendship store starts in a state the
\* friendship controllers can leave it in
InitStored ==
    /\ onlineUsers = [u \in Users |-> NoConn]
    /\ sockets = <<>>
    /\ userStatus = [u \in Users |-> "offline"]
    /\ \E st \in {"none", "pending", "accepted", "rejected"} :
          friendship = [p \in Pairs |-> IF p = <<"a", "b">> THEN st ELSE "none"]
    /\ messages = <<>>
    /\ handlers = [h \in Slots |-> Idle]
    /\ emitted = <<>>
    /\ refreshToken = [u \in Users |-> NoRefresh]
    /\ now = 0

NextPresence ==
    \/ \E hs \in Handshakes : Connection(hs)
    \/ \E s \in 1..MaxConns : ConnSetOnline(s)
    \/ \E s \in 1..MaxConns : ConnFindFriends(s)
    \/ \E s \in 1..MaxConns : Close(s)
    \/ \E s \in 1..MaxConns : DiscSetOffline(s)
    \/ \E s \in 1..MaxConns, r \in Users, ev \in {"typing", "stop_typing"} : Typing(s, r, ev)
    \/ \E u \in Users, r \in Users : AcceptFriendRequest(u, r)
    \/ \E u \in Users, f \in Users : RemoveFriend(u, f)

SpecPresence == InitStored /\ [][NextPresence]_vars

----------------------------------------------------------------------------
(* Chat: the event router and getMessages between users whose friendship is already stored *)

NextChat ==
    \/ \E hs \in Handshakes : Len(sockets) < ChatConns /\ Connection(hs)
    \/ \E s \in 1..MaxConns : ConnSetOnline(s)
    \/ \E s \in 1..MaxConns : ConnFindFriends(s)
    \/ \E s \in 1..MaxConns : Close(s)
    \/ \E s \in 1..MaxConns : DiscSetOffline(s)
    \/ \E s \in 1..MaxConns, d \in SendData : MsgRoom(MaxMsgs) /\ SendMessage(s, d)
    \/ \E h \in Slots : SendFindFriendship(h)
    \/ \E h \in Slots : SendCreate(h)
    \/ \E h \in Slots : SendPopulate(h)
    \/ \E h \in Slots : SendSave(h)
    \/ \E s \in 1..MaxConns, m \in 1..MaxMsgs : MessageRead(s, m)
    \/ \E h \in Slots : ReadFindById(h)
    \/ \E h \in Slots : ReadSave(h)
    \/ \E h \in Slots : StorageFail(h)
    \/ \E u \in Users, f \in Users : GetMessages(u, f)
    \/ \E h \in Slots : GetFindFriendship(h)
    \/ \E h \in Slots : GetFind(h)
    \/ \E h \in Slots : GetUpdateMany(h)

SpecChat == InitStored /\ [][NextChat]_vars

----------------------------------------------------------------------------
(* Routing: every event the registry routes, with one socket handler in flight at a time *)

NextRouting ==
    \/ \E hs \in Handshakes : Connection(hs)
    \/ \E s \in 1..MaxConns : ConnSetOnline(s)
    \/ \E s \in 1..MaxConns : ConnFindFriends(s)
    \/ \E s \in 1..MaxConns : Close(s)
    \/ \E s \in 1..MaxConns : DiscSetOffline(s)
    \/ \E s \in 1..MaxConns, r \in Users, ev \in {"typing", "stop_typing"} : Typing(s, r, ev)
    \/ \E s \in 1..MaxConns, d \in SendData : FreeSlots = Slots /\ MsgRoom(MaxMsgs) /\ SendMessage(s, d)
    \/ \E h \in Slots : SendFindFriendship(h)
    \/ \E h \in Slots : SendCreate(h)
    \/ \E h \in Slots : SendPopulate(h)
    \/ \E h \in Slots : SendSave(h)
    \/ \E s \in 1..MaxConns, m \in 1..MaxMsgs : FreeSlots = Slots /\ MessageRead(s, m)
    \/ \E h \in Slots : ReadFindById(h)
    \/ \E h \in Slots : ReadSave(h)

SpecRouting == InitStored /\ [][NextRouting]_vars

----------------------------------------------------------------------------
(* Order: send_message events of the connections of two identities, with room for a second Message *)

OrderMsgs == MaxMsgs + 1

NextOrder ==
    \/ \E hs \in Handshakes : Len(sockets) < ChatConns /\ Connection(hs)
    \/ \E s \in 1..MaxConns : ConnSetOnline(s)
    \/ \E s \in 1..MaxConns : ConnFindFriends(s)
    \/ \E s \in 1..MaxConns, d \in SendData : MsgRoom(OrderMsgs) /\ SendMessage(s, d)
    \/ \E h \in Slots : SendFindFriendship(h)
    \/ \E h \in Slots : SendCreate(h)
    \/ \E h \in Slots : SendPopulate(h)
    \/ \E h \in Slots : SendSave(h)

SpecOrder == InitStored /\ [][NextOrder]_vars

----------------------------------------------------------------------------
(* Friends: the HTTP controllers that write and read the Friendship store, from an empty store *)

NextFriends ==
    \/ \E u \in Users, r \in Users : SendFriendRequest(u, r)
    \/ \E h \in Slots : FriendCreate(h)
    \/ \E u \in Users, r \in Users : AcceptFriendRequest(u, r)
    \/ \E u \in Users, p \in Pairs : RejectFriendRequestDelete(u, p)
    \/ \E u \in Users, r \in Users : RejectFriendRequestKeep(u, r)
    \/ \E u \in Users, f \in Users : RemoveFriend(u, f)
    \/ \E u \in Users, f \in Users : GetMessages(u, f)
    \/ \E h \in Slots : GetFindFriendship(h)
    \/ \E h \in Slots : GetFind(h)
    \/ \E h \in Slots : GetUpdateMany(h)

SpecFriends == Init /\ [][NextFriends]_vars

----------------------------------------------------------------------------
(* Fields: the event router fed with events that lack a field *)

NextFields ==
    \/ \E hs \in Handshakes : Len(sockets) < ChatConns /\ Connection(hs)
    \/ \E s \in 1..MaxConns : ConnSetOnline(s)
    \/ \E s \in 1..MaxConns : ConnFindFriends(s)
    \/ \E s \in 1..MaxConns, r \in Users \cup {NoUser}, ev \in {"typing", "stop_typing"} : Typing(s, r, ev)
    \/ \E s \in 1..MaxConns, d \in SendDataPartial : MsgRoom(MaxMsgs) /\ SendMessage(s, d)
    \/ \E h \in Slots : SendFindFriendship(h)
    \/ \E h \in Slots : SendCreate(h)
    \/ \E h \in Slots : SendPopulate(h)
    \/ \E h \in Slots : SendSave(h)
    \/ \E s \in 1..MaxConns, m \in {NoMsg} \cup (1..MaxMsgs) : MessageRead(s, m)
    \/ \E h \in Slots : ReadFindById(h)
    \/ \E h \in Slots : ReadSave(h)

SpecFields == InitStored /\ [][NextFields]_vars

----------------------------------------------------------------------------
(* Auth: the two authentication layers over every state of the User store *)

\* the User store is external: an account a token was issued for may have no document
InitAuth ==
    /\ onlineUsers = [u \in Users |-> NoConn]
    /\ sockets = <<>>
    /\ userStatus \in [Users -> {"offline", "absent"}]
    /\ friendship = [p \in Pairs |-> "none"]
    /\ messages = <<>>
    /\ handlers = [h \in Slots |-> Idle]
    /\ emitted = <<>>
    /\ refreshToken = [u \in Users |-> NoRefresh]
    /\ now = 0

NextAuth ==
    \/ \E hs \in Handshakes : Len(sockets) < ChatConns /\ Connection(hs)
    \/ \E s \in 1..MaxConns : ConnSetOnline(s)
    \/ \E s \in 1..MaxConns : ConnFindFriends(s)
    \/ \E s \in 1..MaxConns : Close(s)
    \/ \E s \in 1..MaxConns : DiscSetOffline(s)
    \/ \E t \in Tokens \cup {NoToken} : Authenticate(t)
    \/ \E h \in Slots : AuthFindById(h)

SpecAuth == InitAuth /\ [][NextAuth]_vars

----------------------------------------------------------------------------
(* Refresh: login, refresh and logout calls of the accounts, with the clock *)

NextRefresh ==
    \/ \E u \in Users : Login(u)
    \/ \E h \in Slots : LoginSave(h)
    \/ \E t \in RefreshTokens \cup {NoRefresh} : RefreshToken(t)
    \/ \E h \in Slots : RefreshFindById(h)
    \/ \E h \in Slots : RefreshSave(h)
    \/ \E u \in Users : Logout(u)
    \/ \E h \in Slots : LogoutFindById(h)
    \/ \E h \in Slots : LogoutSave(h)
    \/ Tick

SpecRefresh == Init /\ [][NextRefresh]_vars

----------------------------------------------------------------------------
(* HttpSend: Messages sent over HTTP and over the socket, between connecting and disconnecting users *)

NextHttpSend ==
    \/ \E hs \in Handshakes : Len(sockets) < ChatConns /\ Connection(hs)
    \/ \E s \in 1..MaxConns : ConnSetOnline(s)
    \/ \E s \in 1..MaxConns : ConnFindFriends(s)
    \/ \E s \in 1..MaxConns : Close(s)
    \/ \E s \in 1..MaxConns : DiscSetOffline(s)
    \/ \E u \in Users, d \in SendDataPartial : MsgRoom(MaxMsgs) /\ HttpSendMessage(u, d)
    \/ \E h \in Slots : HttpSendFindFriendship(h)
    \/ \E h \in Slots : HttpSendCreate(h)
    \/ \E h \in Slots : HttpSendPopulate(h)
    \/ \E s \in 1..MaxConns, d \in SendData : MsgRoom(MaxMsgs) /\ SendMessage(s, d)
    \/ \E h \in Slots : SendFindFriendship(h)
    \/ \E h \in Slots : SendCreate(h)
    \/ \E h \in Slots : SendPopulate(h)
    \/ \E h \in Slots : SendSave(h)
    \/ \E s \in 1..MaxConns, m \in 1..MaxMsgs : MessageRead(s, m)
    \/ \E h \in Slots : ReadFindById(h)
    \/ \E h \in Slots : ReadSave(h)

SpecHttpSend == InitStored /\ [][NextHttpSend]_vars

----------------------------------------------------------------------------
(* History: getMessages pages over Messages sent over HTTP, while users connect and a Friendship is removed *)

\* one socket is enough for a sender that is registered while the friend fetches the history
HistoryConns == ChatConns - 1

NextHistory ==
    \/ \E hs \in Handshakes : Len(sockets) < HistoryConns /\ Connection(hs)
    \/ \E s \in 1..MaxConns : ConnSetOnline(s)
    \/ \E s \in 1..MaxConns : ConnFindFriends(s)
    \/ \E u \in Users, d \in SendData : MsgRoom(OrderMsgs) /\ HttpSendMessage(u, d)
    \/ \E h \in Slots : HttpSendFindFriendship(h)
    \/ \E h \in Slots : HttpSendCreate(h)
    \/ \E h \in Slots : HttpSendPopulate(h)
    \/ \E u \in Users, f \in Users, limit \in {1, DefaultLimit} : GetMessagesPage(u, f, limit)
    \/ \E h \in Slots : GetFindFriendship(h)
    \/ \E h \in Slots : GetFind(h)
    \/ \E h \in Slots : GetUpdateMany(h)
    \/ \E u \in Users, f \in Users : RemoveFriend(u, f)

SpecHistory == InitStored /\ [][NextHistory]_vars

----------------------------------------------------------------------------
(* Properties *)

Emitted(ev) == {i \in 1..Len(emitted) : emitted[i].ev = ev}

SocketIds == 1..Len(sockets)

\* C1: the stored status of a Message only ever moves forward in the order
\* sent < delivered < read, whatever handlers and getMessages calls interleave.
C1_StatusMonotonic ==
    [][\A m \in MsgIds : Rank(messages'[m].status) >= Rank(messages[m].status)]_vars

\* C2: when a socket whose registry entry was overwritten by a newer, still open socket
\* of the same identity disconnects, the registry still maps the identity to the newer socket.
C2_StaleDisconnectKeepsEntry ==
    [][\A s \in SocketIds :
          LET u == sockets[s].userId
              cur == onlineUsers[u]
          IN (Close(s) /\ cur \notin {NoConn, s} /\ sockets[cur].open)
                => onlineUsers'[u] = cur]_vars

\* C3: a send_message between identities with no accepted Friendship in either direction
\* emits one error event to the sender's socket only, creates no Message and ends the handler.
C3_NotFriendsRejected ==
    [][\A h \in Slots :
          (/\ SendFindFriendship(h)
           /\ friendship[<<handlers[h].user, handlers[h].peer>>] # "accepted"
           /\ friendship[<<handlers[h].peer, handlers[h].user>>] # "accepted")
             => /\ Len(emitted') = 1
                /\ emitted'[1].ev = "error"
                /\ emitted'[1].to = handlers[h].sock
                /\ messages' = messages
                /\ handlers'[h] = Idle]_vars

C3_Witness ==
    /\ friendship[<<"a", "b">>] = "pending"
    /\ Len(emitted) = 1
    /\ emitted[1].ev = "error"
    /\ emitted[1].status = "Not friends with this user"
    /\ \E s \in SocketIds : s # emitted[1].to /\ sockets[s].pc = "ready" /\ sockets[s].open

\* C7: the user_offline of a disconnect reaches a friend's socket before the user_online of
\* the reconnect that followed the disconnect: no user_offline{B} is pushed to a socket that
\* a later socket of B, connected after B's earlier sockets had closed, has already
\* announced itself to.
C7_OfflineBeforeOnline ==
    \A i \in Emitted("user_offline") :
        ~\E c \in SocketIds :
            /\ c > emitted[i].from
            /\ c > emitted[i].to
            /\ sockets[c].userId = emitted[i].userId
            /\ sockets[c].sole
            /\ sockets[c].open
            /\ sockets[c].pc = "ready"
            /\ sockets[emitted[i].to].userId \in sockets[c].friendIds

\* C8: a connection attempt without a credential, or with one that fails verification, is
\* rejected with an authentication error and changes neither the registry, nor an account
\* status, nor the sockets, and pushes no event to a socket.
C8_RejectedConnectionMutatesNothing ==
    [][\A hs \in Handshakes :
          (Connection(hs) /\ HandshakeToken(hs).sig # "good")
             => /\ UNCHANGED <<onlineUsers, sockets, userStatus, friendship, messages, handlers>>
                /\ Len(emitted') = 1
                /\ emitted'[1].ev = "connect_error"
                /\ emitted'[1].to = NoConn]_vars

C8_Witness ==
    /\ Len(emitted) = 1
    /\ emitted[1].ev = "connect_error"
    /\ emitted[1].status = "Invalid token"
    /\ \E u \in Users : onlineUsers[u] # NoConn

\* C9: typing / stop_typing from A for receiver B pushes exactly one such event, carrying A,
\* to B's registered socket when B is registered and nothing otherwise, whatever the
\* friendship between A and B, and changes no store and no registry entry.
C9_TypingForwarded ==
    [][\A s \in SocketIds, r \in Users, ev \in {"typing", "stop_typing"} :
          Typing(s, r, ev)
             => /\ UNCHANGED <<onlineUsers, sockets, userStatus, friendship, messages, handlers>>
                /\ IF onlineUsers[r] # NoConn
                   THEN /\ Len(emitted') = 1
                        /\ emitted'[1].ev = ev
                        /\ emitted'[1].to = onlineUsers[r]
                        /\ emitted'[1].userId = sockets[s].userId
                   ELSE emitted' = <<>>]_vars

C9_Witness ==
    /\ Len(emitted) = 1
    /\ emitted[1].ev = "stop_typing"
    /\ emitted[1].to = onlineUsers["b"]
    /\ emitted[1].userId = "a"
    /\ ~AcceptedBetween("a", "b")

\* C4 as claimed: a Message becomes delivered exactly when the receiver had a registry entry
\* at the time the send_message event arrived.
C4_DeliveredIffRegisteredAtArrival ==
    [][\A h \in Slots :
          /\ SendSave(h) => handlers[h].atArrival
          /\ (SendPopulate(h) /\ handlers'[h] = Idle) => ~handlers[h].atArrival]_vars

\* C4 as amended: an authorised send_message creates exactly one Message, initially sent, and
\* its status is written to delivered exactly when the receiver has a registry entry at the
\* time the handler reads the registry, after the Message has been created and populated.
C4_DeliveredIffRegisteredAtLookup ==
    [][/\ \A h \in Slots :
            /\ SendCreate(h)
                 => /\ handlers[h].msg = NoMsg
                    /\ Len(messages') = Len(messages) + 1
                    /\ messages'[Len(messages')].status = "sent"
                    /\ messages'[Len(messages')].sender = handlers[h].user
                    /\ messages'[Len(messages')].receiver = handlers[h].peer
                    /\ \A m \in MsgIds : messages'[m] = messages[m]
            /\ SendPopulate(h)
                 => /\ (handlers'[h].pc = "save") <=> (onlineUsers[handlers[h].peer] # NoConn)
                    /\ (handlers'[h] = Idle) <=> (onlineUsers[handlers[h].peer] = NoConn)
            /\ SendSave(h)
                 => /\ messages[handlers[h].msg].present = "yes"
                    /\ messages'[handlers[h].msg].status = "delivered"
       /\ \A m \in MsgIds :
            (messages'[m].status = "delivered" /\ messages[m].status # "delivered")
               => messages[m].present = "yes"
       /\ (\A h \in Slots : ~SendCreate(h)) => Len(messages') = Len(messages)]_vars

\* the receiver connected while the handler was suspended, and the Message is being delivered
C4_Witness ==
    \E h \in Slots :
        /\ handlers[h].kind = "send_message"
        /\ handlers[h].pc = "save"
        /\ ~handlers[h].atArrival
        /\ messages[handlers[h].msg].status = "sent"
        /\ messages[handlers[h].msg].present = "yes"

\* C6: with A and B friends and B registered on the same socket from the handler's registry
\* lookup to its end, a send_message from A pushes exactly one receive_message, carrying the
\* new Message with status delivered, to B's registered socket, and then message_sent with
\* the same Message and status delivered to the socket the event came from.
C6_DeliveredToBoth ==
    [][\A h \in Slots :
          /\ (SendPopulate(h) /\ onlineUsers[handlers[h].peer] # NoConn)
                => /\ handlers'[h].pc = "save"
                   /\ handlers'[h].rsock = onlineUsers[handlers[h].peer]
          /\ (SendSave(h) /\ onlineUsers[handlers[h].peer] = handlers[h].rsock)
                => /\ Len(emitted') = 2
                   /\ emitted'[1].ev = "receive_message"
                   /\ emitted'[1].to = onlineUsers[handlers[h].peer]
                   /\ emitted'[1].msg = handlers[h].msg
                   /\ emitted'[1].status = "delivered"
                   /\ emitted'[2].ev = "message_sent"
                   /\ emitted'[2].to = handlers[h].sock
                   /\ emitted'[2].msg = handlers[h].msg
                   /\ emitted'[2].status = "delivered"
                   /\ messages'[handlers[h].msg].sender = handlers[h].user
                   /\ messages'[handlers[h].msg].receiver = handlers[h].peer]_vars

C6_Witness ==
    /\ Len(emitted) = 2
    /\ emitted[1].ev = "receive_message"
    /\ emitted[1].to = onlineUsers["b"]
    /\ emitted[2].ev = "message_sent"
    /\ emitted[2].to = onlineUsers["a"]
    /\ emitted[1].msg = emitted[2].msg
    /\ messages[emitted[1].msg].sender = "a"
    /\ messages[emitted[1].msg].receiver = "b"

\* C10: a message_read for message m from identity U that is not interrupted by a storage
\* failure sets m to read, and pushes message_read{m} to the registered socket of m's sender
\* if there is one, exactly when m exists and U is m's receiver; otherwise it changes no
\* Message and pushes nothing.
C10_ReadOnlyByReceiver ==
    [][\A h \in Slots :
          /\ ReadFindById(h)
               => /\ messages' = messages
                  /\ emitted' = <<>>
                  /\ IF /\ handlers[h].msg \in MsgIds
                        /\ messages[handlers[h].msg].receiver = handlers[h].user
                     THEN handlers'[h].pc = "save"
                     ELSE handlers'[h] = Idle
          /\ ReadSave(h)
               => LET m == handlers[h].msg
                      to == onlineUsers[messages[m].sender]
                  IN /\ messages[m].receiver = handlers[h].user
                     /\ messages'[m].status = "read"
                     /\ \A n \in MsgIds \ {m} : messages'[n] = messages[n]
                     /\ IF to # NoConn
                        THEN /\ Len(emitted') = 1
                             /\ emitted'[1].ev = "message_read"
                             /\ emitted'[1].to = to
                             /\ emitted'[1].msg = m
                        ELSE emitted' = <<>>]_vars

C10_Witness ==
    /\ Len(emitted) = 1
    /\ emitted[1].ev = "message_read"
    /\ messages[emitted[1].msg].status = "read"
    /\ emitted[1].to = onlineUsers[messages[emitted[1].msg].sender]
    /\ sockets[emitted[1].from].userId = messages[emitted[1].msg].receiver

\* C5: once an identity has registered a newer socket, every event routed to the identity
\* through the registry (receive_message, typing, stop_typing, message_read, user_online,
\* user_offline) is pushed to the newer socket and never to an earlier socket of the identity.
C5_NewestSocketOnly ==
    \A i \in 1..Len(emitted) :
        emitted[i].ev \in {"receive_message", "typing", "stop_typing", "message_read",
                           "user_online", "user_offline"}
           => ~\E c \in SocketIds :
                 /\ c > emitted[i].to
                 /\ sockets[c].userId = sockets[emitted[i].to].userId

\* C11: a storage operation that fails inside a send_message or a message_read handler is
\* caught, surfaces as exactly one error event on the socket the event came from, and leaves
\* the socket and every store as they were.
C11_StorageFailureSurfaces ==
    [][\A h \in Slots :
          StorageFail(h)
             => /\ Len(emitted') = 1
                /\ emitted'[1].ev = "error"
                /\ emitted'[1].to = handlers[h].sock
                /\ sockets' = sockets
                /\ handlers'[h] = Idle]_vars

\* C12: the events of one connection are handled strictly in arrival order: the handler of
\* a send_message runs to completion before the next send_message of the same connection is
\* processed, so no two send_message handlers of one connection are ever in flight together.
C12_OneHandlerPerConnection ==
    \A h1, h2 \in Slots :
        (/\ h1 # h2
         /\ handlers[h1].kind = "send_message"
         /\ handlers[h2].kind = "send_message")
           => handlers[h1].sock # handlers[h2].sock

\* C13: when the connect handling of a socket of identity A that is still open finishes, the
\* registry maps A to this socket (or to a socket A connected after it), A's account status
\* is stored as online, and user_online{A} has been pushed exactly once to the registered
\* socket of each identity with an accepted Friendship with A, and to no other socket.
C13_ConnectEffects ==
    [][\A s \in SocketIds :
          (ConnFindFriends(s) /\ sockets[s].open)
             => LET u == sockets[s].userId
                    present == {f \in FriendIdsOf(u) : onlineUsers[f] # NoConn}
                IN /\ onlineUsers'[u] # NoConn
                   /\ onlineUsers'[u] >= s
                   /\ userStatus'[u] = "online"
                   /\ Len(emitted') = Cardinality(present)
                   /\ \A f \in present :
                         \E i \in 1..Len(emitted') :
                            /\ emitted'[i].ev = "user_online"
                            /\ emitted'[i].userId = u
                            /\ emitted'[i].to = onlineUsers[f]]_vars

\* C14: every disconnect of a socket of identity A runs the disconnect handling, which stores
\* A's account status as offline and pushes user_offline{A} exactly once to the registered
\* socket of each identity in the friend set computed when the socket connected, whatever
\* Friendships were accepted or removed since, and to no other socket.
C14_DisconnectEffects ==
    [][\A s \in SocketIds :
          /\ Close(s) => sockets'[s].pc = "setOffline"
          /\ DiscSetOffline(s)
                => LET u == sockets[s].userId
                       present == {f \in sockets[s].friendIds : onlineUsers[f] # NoConn}
                   IN /\ userStatus'[u] = "offline"
                      /\ Len(emitted') = Cardinality(present)
                      /\ \A f \in present :
                            \E i \in 1..Len(emitted') :
                               /\ emitted'[i].ev = "user_offline"
                               /\ emitted'[i].userId = u
                               /\ emitted'[i].to = onlineUsers[f]]_vars

\* C20: a closed socket does not stay in the registry: once a socket has closed and neither its
\* connect handling nor its disconnect handling is still pending, the registry no longer maps
\* its identity to it.
C20_ClosedSocketUnregistered ==
    \A s \in SocketIds :
        (~sockets[s].open /\ sockets[s].pc \in {"ready", "closed"})
           => onlineUsers[sockets[s].userId] # s

\* C18: a send_message that passes the friendship check and whose storage operations succeed
\* is acknowledged by exactly one message_sent, pushed when the handler ends to the socket the
\* event arrived on and to no other socket, whether or not the receiver is registered, and it
\* pushes at most one receive_message.
C18_OneAcknowledgement ==
    [][/\ \A h \in Slots :
            /\ (SendFindFriendship(h) /\ AcceptedBetween(handlers[h].user, handlers[h].peer))
                  => emitted' = <<>> /\ handlers'[h].pc = "create"
            /\ SendCreate(h) => emitted' = <<>> /\ handlers'[h].pc = "populate"
            /\ SendPopulate(h)
                  => IF onlineUsers[handlers[h].peer] = NoConn
                     THEN /\ handlers'[h] = Idle
                          /\ Len(emitted') = 1
                          /\ emitted'[1].ev = "message_sent"
                          /\ emitted'[1].to = handlers[h].sock
                          /\ emitted'[1].msg = handlers[h].msg
                     ELSE emitted' = <<>> /\ handlers'[h].pc = "save"
            /\ SendSave(h)
                  => /\ handlers'[h] = Idle
                     /\ Cardinality({i \in 1..Len(emitted') : emitted'[i].ev = "message_sent"}) = 1
                     /\ Cardinality({i \in 1..Len(emitted') : emitted'[i].ev = "receive_message"}) = 1
                     /\ Len(emitted') = 2
       /\ \A i \in 1..Len(emitted') :
            emitted'[i].ev = "message_sent"
               => \E h \in Slots :
                     /\ handlers[h].kind = "send_message"
                     /\ handlers[h].pc \in {"populate", "save"}
                     /\ handlers'[h] = Idle
                     /\ emitted'[i].to = handlers[h].sock
                     /\ emitted'[i].msg = handlers[h].msg]_vars

\* the receiver has no registry entry and the sender is acknowledged with the Message as sent
C18_Witness ==
    /\ Len(emitted) = 1
    /\ emitted[1].ev = "message_sent"
    /\ emitted[1].status = "sent"
    /\ messages[emitted[1].msg].status = "sent"
    /\ onlineUsers[messages[emitted[1].msg].receiver] = NoConn
    /\ sockets[emitted[1].to].userId = messages[emitted[1].msg].sender

\* C15: whatever sendFriendRequest, acceptFriendRequest, rejectFriendRequest and removeFriend
\* calls interleave, the Friendship store holds at most one record per unordered pair of users.
C15_OneRecordPerPair ==
    \A a, b \in Users :
        a # b => (friendship[<<a, b>>] = "none" \/ friendship[<<b, a>>] = "none")

\* C17: an event that lacks a required field (send_message without receiverId or without
\* content, typing / stop_typing without receiverId, message_read without messageId) is
\* answered with exactly one error event on the socket it came from; it stores nothing, pushes
\* nothing to another socket and leaves the socket open.
C17_MissingFieldRejected ==
    [][/\ \A s \in SocketIds, ev \in {"typing", "stop_typing"} :
            Typing(s, NoUser, ev)
               => /\ Len(emitted') = 1
                  /\ emitted'[1].ev = "error"
                  /\ emitted'[1].to = s
       /\ \A h \in Slots :
            \/ SendFindFriendship(h) /\ handlers[h].peer = NoUser
            \/ SendCreate(h) /\ handlers[h].content = NoContent
            \/ ReadFindById(h) /\ handlers[h].msg = NoMsg
               => /\ Len(emitted') = 1
                  /\ emitted'[1].ev = "error"
                  /\ emitted'[1].to = handlers[h].sock
                  /\ messages' = messages
                  /\ sockets' = sockets
                  /\ handlers'[h] = Idle]_vars

\* C16: the connection gateway and the HTTP authenticate middleware accept the same
\* credentials: in every state of the User store a socket connection carrying a token is
\* accepted exactly when authenticate, given the same token, passes the request on.
C16_SameAuthRule ==
    [][/\ \A hs \in Handshakes :
            Connection(hs)
               => ((Len(sockets') = Len(sockets) + 1) <=> HttpAccepts(HandshakeToken(hs)))
       /\ \A t \in Tokens \cup {NoToken} :
            Authenticate(t) => ((handlers' = handlers) <=> (t = NoToken \/ ~verifyAccessToken(t)))
       /\ \A h \in Slots :
            AuthFindById(h)
               => ((emitted' = <<Http("next")>>) <=> UserExists(handlers[h].user))]_vars

\* C19: refresh tokens are rotated and invalidated: a refresh request succeeds only while the
\* token it presented is the one stored for the account (so not after another refresh or a
\* logout has used it up, and never twice for the same token), and after it has succeeded the
\* presented token is no longer the stored one.
C19_RefreshRotation ==
    [][\A h \in Slots :
          RefreshSave(h)
             => /\ refreshToken[handlers[h].user] = handlers[h].presented
                /\ refreshToken'[handlers[h].user] # handlers[h].presented]_vars

\* C21: when the send_message handler has saved a Message as delivered, the receive_message
\* is pushed to the socket that is the receiver's registry entry at the moment of the push:
\* never to a socket whose entry was deleted or overwritten during the save.
C21_PushToCurrentEntry ==
    [][\A h \in Slots :
          SendSave(h) => handlers[h].rsock = onlineUsers[handlers[h].peer]]_vars

\* C22: considering connects and disconnects, in every quiescent state (no connect handling,
\* disconnect handling or other handler in flight) an account's stored status is online
\* exactly when the registry has an entry for its identity.
C22_StatusMatchesRegistry ==
    (/\ \A s \in SocketIds : sockets[s].pc \in {"ready", "closed"}
     /\ \A h \in Slots : handlers[h] = Idle)
       => \A u \in Users : (userStatus[u] = "online") <=> (onlineUsers[u] # NoConn)

\* C23: send_message is all-or-nothing about its error outcome: whenever a send_message handler
\* ends with an error event to the sender, after a failed friendship check or a storage failure
\* at any step, no Message of that event is in the Message store and no receive_message is pushed.
C23_ErrorMeansNoMessage ==
    [][\A h \in Slots :
          (/\ handlers[h].kind = "send_message"
           /\ handlers'[h] = Idle
           /\ \E i \in 1..Len(emitted') : emitted'[i].ev = "error" /\ emitted'[i].to = handlers[h].sock)
             => /\ handlers[h].msg = NoMsg
                /\ \A i \in 1..Len(emitted') : emitted'[i].ev # "receive_message"]_vars

\* C24: two message_read handlers of message m, both issued by m's receiver and in flight
\* together, leave m read however their steps interleave: the find of either changes no
\* Message, the save of either leaves m in status read and every other Message and the other
\* handler as they were, so m never takes a status other than its prior one or read, and it
\* is read when the second handler ends.
C24_ConcurrentReadsEndRead ==
    [][/\ \A h1, h2 \in Slots :
            (/\ h1 # h2
             /\ handlers[h1].kind = "message_read"
             /\ handlers[h2].kind = "message_read"
             /\ handlers[h1].msg = handlers[h2].msg
             /\ handlers[h1].msg \in MsgIds
             /\ handlers[h1].user = messages[handlers[h1].msg].receiver
             /\ handlers[h2].user = messages[handlers[h1].msg].receiver)
               => LET m == handlers[h1].msg
                  IN /\ ReadFindById(h1)
                          => /\ messages' = messages
                             /\ handlers'[h1].pc = "save"
                             /\ handlers'[h2] = handlers[h2]
                     /\ ReadSave(h1)
                          => /\ messages'[m].status = "read"
                             /\ \A n \in MsgIds \ {m} : messages'[n] = messages[n]
                             /\ handlers'[h2] = handlers[h2]
       /\ \A h \in Slots :
            (ReadSave(h) /\ messages[handlers[h].msg].status = "read")
               => messages'[handlers[h].msg].status = "read"]_vars

\* the first of two overlapping message_read handlers has saved m as read and notified the
\* sender; the second is still suspended on its own save
C24_Witness ==
    \E h \in Slots :
        /\ handlers[h].kind = "message_read"
        /\ handlers[h].pc = "save"
        /\ handlers[h].user = messages[handlers[h].msg].receiver
        /\ messages[handlers[h].msg].status = "read"
        /\ Len(emitted) = 1
        /\ emitted[1].ev = "message_read"
        /\ emitted[1].msg = handlers[h].msg

\* C25: a disconnect cancels no handler in flight: a send_message handler whose socket has
\* closed can take its next step, and takes it as it would with the socket open: after the
\* friendship check it creates the Message, after the populate it saves the Message as
\* delivered if the receiver is registered and else ends with the Message as stored, and after
\* the save it pushes receive_message to the receiver; and no send_message or message_read event
\* of a closed socket starts a handler.
C25_DisconnectCancelsNothing ==
    [][/\ \A h \in Slots :
            (handlers[h].kind = "send_message" /\ ~sockets[handlers[h].sock].open)
               => /\ ENABLED (SendFindFriendship(h) \/ SendCreate(h) \/ SendPopulate(h) \/ SendSave(h))
                  /\ (SendFindFriendship(h) /\ AcceptedBetween(handlers[h].user, handlers[h].peer))
                        => handlers'[h].pc = "create"
                  /\ SendCreate(h)
                        => /\ Len(messages') = Len(messages) + 1
                           /\ messages'[Len(messages')].sender = handlers[h].user
                           /\ messages'[Len(messages')].receiver = handlers[h].peer
                           /\ handlers'[h].pc = "populate"
                  /\ SendPopulate(h)
                        => IF onlineUsers[handlers[h].peer] # NoConn
                           THEN handlers'[h].pc = "save"
                           ELSE /\ handlers'[h] = Idle
                                /\ messages'[handlers[h].msg].status = messages[handlers[h].msg].status
                  /\ SendSave(h)
                        => /\ messages'[handlers[h].msg].status = "delivered"
                           /\ handlers'[h] = Idle
                           /\ \E i \in 1..Len(emitted') :
                                 /\ emitted'[i].ev = "receive_message"
                                 /\ emitted'[i].to = handlers[h].rsock
                                 /\ emitted'[i].msg = handlers[h].msg
       /\ \A s \in SocketIds :
            ~sockets[s].open
               => /\ \A d \in SendData : ~SendMessage(s, d)
                  /\ \A m \in 1..MaxMsgs : ~MessageRead(s, m)]_vars

\* the sender's socket closed while its handler was suspended, and the Message has since been
\* saved as delivered and pushed to the receiver
C25_Witness ==
    /\ Len(emitted) = 2
    /\ emitted[1].ev = "receive_message"
    /\ ~sockets[emitted[1].from].open
    /\ sockets[emitted[1].from].userId = messages[emitted[1].msg].sender
    /\ messages[emitted[1].msg].status = "delivered"
    /\ sockets[emitted[1].to].open

\* C26 as claimed: a Message created while its receiver has no registry entry is never saved
\* as delivered nor pushed as receive_message.
C26_CreatedUnregisteredNeverDelivered ==
    [][\A h \in Slots : SendSave(h) => handlers[h].atCreate]_vars

\* C26 as amended: a Message whose handler found no registry entry for the receiver when it
\* read the registry, after the create and the populate, is never pushed as receive_message
\* afterwards, not even when the receiver connects, and never becomes delivered: it stays sent
\* until a message_read handler or a getMessages call marks it read.
C26_LookupUnregisteredNeverDelivered ==
    [][\A m \in MsgIds :
          messages[m].present = "no"
             => /\ messages'[m].status \in {"sent", "read"}
                /\ messages'[m].status \in {messages[m].status, "read"}
                /\ \A i \in 1..Len(emitted') :
                      emitted'[i].ev = "receive_message" => emitted'[i].msg # m
                /\ messages'[m].status # messages[m].status
                      => \E h \in Slots : ReadSave(h) \/ GetUpdateMany(h)]_vars

\* a Message that found its receiver unregistered is still sent after the receiver has
\* connected and its connect handling has finished
C26_Witness ==
    \E m \in MsgIds :
        /\ messages[m].present = "no"
        /\ messages[m].status = "sent"
        /\ onlineUsers[messages[m].receiver] # NoConn
        /\ sockets[onlineUsers[messages[m].receiver]].pc = "ready"
        /\ sockets[onlineUsers[messages[m].receiver]].open
        /\ \A h \in Slots : handlers[h] = Idle

\* C27: the presence events about identity A (user_online, user_offline) of a socket of A are
\* pushed only to the registered sockets of the identities in the friend set the socket's
\* connect handling computed, which holds exactly identities with an accepted Friendship with A
\* at that time and is never changed afterwards; no other step pushes a presence event.
C27_PresenceOnlyToConnectTimeFriends ==
    [][/\ \A s \in SocketIds :
            /\ ConnFindFriends(s)
                  => \A f \in sockets'[s].friendIds :
                        \/ friendship[<<sockets[s].userId, f>>] = "accepted"
                        \/ friendship[<<f, sockets[s].userId>>] = "accepted"
            /\ sockets[s].pc \in {"ready", "setOffline", "closed"}
                  => sockets'[s].friendIds = sockets[s].friendIds
       /\ \A i \in 1..Len(emitted') :
            emitted'[i].ev \in {"user_online", "user_offline"}
               => LET s == emitted'[i].from
                  IN /\ s \in SocketIds
                     /\ ConnFindFriends(s) \/ DiscSetOffline(s)
                     /\ emitted'[i].userId = sockets[s].userId
                     /\ \E f \in sockets'[s].friendIds : emitted'[i].to = onlineUsers[f]
                     /\ sockets[emitted'[i].to].userId \in sockets'[s].friendIds]_vars

\* b is told that a went offline although their Friendship was removed after a connected
C27_Witness ==
    /\ Len(emitted) = 1
    /\ emitted[1].ev = "user_offline"
    /\ emitted[1].userId = "a"
    /\ sockets[emitted[1].to].userId = "b"
    /\ ~AcceptedBetween("a", "b")
    /\ "b" \in sockets[emitted[1].from].friendIds

\* C28: a Message created through the HTTP sendMessage path is stored with status sent and is
\* never pushed as receive_message nor set to delivered, even when its receiver has a registry
\* entry when the controller answers; the HTTP path goes on to create the Message exactly when
\* an accepted Friendship exists in either direction, as the socket path does, and otherwise
\* answers 403 and creates no Message.
C28_HttpSendStoresOnly ==
    [][/\ \A h \in Slots :
            LET accepted == \/ friendship[<<handlers[h].user, handlers[h].peer>>] = "accepted"
                            \/ friendship[<<handlers[h].peer, handlers[h].user>>] = "accepted"
            IN /\ HttpSendFindFriendship(h)
                    => /\ messages' = messages
                       /\ IF accepted
                          THEN handlers'[h].pc = "create" /\ emitted' = <<>>
                          ELSE handlers'[h] = Idle /\ emitted' = <<Http("403")>>
               /\ SendFindFriendship(h)
                    => /\ messages' = messages
                       /\ IF accepted THEN handlers'[h].pc = "create" ELSE handlers'[h] = Idle
               /\ HttpSendCreate(h)
                    => /\ Len(messages') = Len(messages) + 1
                       /\ messages'[Len(messages')].status = "sent"
                       /\ messages'[Len(messages')].via = "http"
                       /\ messages'[Len(messages')].sender = handlers[h].user
                       /\ messages'[Len(messages')].receiver = handlers[h].peer
                       /\ emitted' = <<>>
               /\ HttpSendPopulate(h)
                    => /\ messages' = messages
                       /\ emitted' = <<Http("201")>>
       /\ \A m \in MsgIds :
            messages[m].via = "http"
               => /\ messages'[m].status # "delivered"
                  /\ \A i \in 1..Len(emitted') :
                        emitted'[i].ev = "receive_message" => emitted'[i].msg # m
       /\ (\A h \in Slots : ~HttpSendCreate(h) /\ ~SendCreate(h)) => Len(messages') = Len(messages)]_vars

\* the controller has answered 201 for a Message whose receiver is registered on an open
\* socket, and the Message is stored as sent
C28_Witness ==
    /\ emitted = <<Http("201")>>
    /\ \E m \in MsgIds :
          /\ messages[m].via = "http"
          /\ messages[m].status = "sent"
          /\ onlineUsers[messages[m].receiver] # NoConn
          /\ sockets[onlineUsers[messages[m].receiver]].open
          /\ sockets[onlineUsers[messages[m].receiver]].pc = "ready"

\* C29: getMessages(friendId) by user U goes on only when an accepted Friendship exists between
\* U and friendId, and otherwise answers 403 and changes no Message; when it goes on, its
\* update sets to read every Message from friendId to U that is not read, whatever page the
\* find returned, leaves every other Message (from U to friendId, or of another pair) as it
\* was, and the call pushes no event to a socket, message_read included.
C29_HistoryMarksIncomingRead ==
    [][\A h \in Slots :
          /\ GetFindFriendship(h)
                => /\ messages' = messages
                   /\ IF \/ friendship[<<handlers[h].user, handlers[h].peer>>] = "accepted"
                         \/ friendship[<<handlers[h].peer, handlers[h].user>>] = "accepted"
                      THEN handlers'[h].pc = "find" /\ emitted' = <<>>
                      ELSE handlers'[h] = Idle /\ emitted' = <<Http("403")>>
          /\ GetFind(h) => messages' = messages /\ emitted' = <<>>
          /\ GetUpdateMany(h)
                => /\ Len(messages') = Len(messages)
                   /\ \A m \in MsgIds :
                         IF messages[m].sender = handlers[h].peer /\ messages[m].receiver = handlers[h].user
                         THEN messages'[m] = [messages[m] EXCEPT !.status = "read"]
                         ELSE messages'[m] = messages[m]
                   /\ Len(emitted') = 1
                   /\ emitted'[1].ev = "http"
                   /\ emitted'[1].to = NoConn]_vars

\* a page of one Message was returned, both Messages of the friend were set to read, and the
\* friend, registered on an open socket, was pushed nothing
C29_Witness ==
    /\ emitted = <<HttpPage(1)>>
    /\ Len(messages) = 2
    /\ messages[1].sender = messages[2].sender
    /\ messages[1].receiver = messages[2].receiver
    /\ messages[1].status = "read"
    /\ messages[2].status = "read"
    /\ onlineUsers[messages[1].sender] # NoConn
    /\ sockets[onlineUsers[messages[1].sender]].pc = "ready"

\* C30: a Friendship record becomes accepted only in an acceptFriendRequest step of the record's
\* recipient on a pending record, never from rejected or from no record, and once removeFriend
\* has deleted an accepted record of a pair no accepted record of the pair is left, so that the
\* friendship check of send_message refuses the pair until a new request is accepted.
C30_AcceptedOnlyByRecipient ==
    [][/\ \A p \in Pairs :
            (friendship'[p] = "accepted" /\ friendship[p] # "accepted")
               => /\ friendship[p] = "pending"
                  /\ AcceptFriendRequest(p[2], p[1])
       /\ \A u, f \in Users :
            RemoveFriend(u, f)
               => /\ friendship'[<<u, f>>] # "accepted"
                  /\ friendship'[<<f, u>>] # "accepted"]_vars

====
